---- MODULE Spec2Model ----
(***************************************************************************)
(* cover2bricks: the colour-quantization pipeline of the backend.          *)
(*   backend/palette.py  load_palette, get_rgb_palette,                    *)
(*                       get_palette_metadata                              *)
(*   backend/utils.py    image_to_brick_matrix, map_to_palette,            *)
(*                       expand_mosaic                                     *)
(*   backend/main.py     the /convert and /convert/bricks.csv handlers     *)
(* A colour is a triple <<r, g, b>> of 0..255, a grid (numpy array of      *)
(* shape (h, w, 3)) is a sequence of h rows of w colours.  Palette         *)
(* indices are 0-based as in the code; sequences are 1-based.              *)
(***************************************************************************)
EXTENDS Integers, Sequences, FiniteSets, TLC

VARIABLES
    colorspalette,  \* rows of colorspalette.csv (CSV_PATH), the palette source
    endpoint,       \* the handler serving the request, "" for a direct call
    pc,             \* position of the running call
    img,            \* <<width, height>> of the decoded image
    form,           \* <<crop_left, crop_top, crop_right, crop_bottom>>, each <<>> (None) or <<v>>
    bricks,         \* bricks per side requested
    cell_size,      \* pixels per brick of the preview
    crop_box,       \* <<>> (None) or <<left, upper, right, lower>>
    region,         \* <<left, upper, right, lower>> handed to resize, in source pixel coordinates
    matrix_rgb,     \* raw grid
    palette_rgb,    \* list of RGB tuples passed to map_to_palette
    idx,            \* nearest palette index per flattened cell
    mapped,         \* quantized grid
    counts,         \* usage records
    vis_img,        \* expanded preview, as a pixel grid
    matrix_indices, \* palette index per cell, recovered in /convert
    metadata,       \* palette metadata returned by /convert
    brick_list,     \* rows (elementId, quantity) of the exported CSV
    raised          \* "" or the exception that ended the call

vars == <<colorspalette, endpoint, pc, img, form, bricks, cell_size, crop_box, region, matrix_rgb,
          palette_rgb, idx, mapped, counts, vis_img, matrix_indices, metadata,
          brick_list, raised>>

----------------------------------------------------------------------------
(* Bounds of the model. *)

\* a raw grid passed directly to map_to_palette or expand_mosaic has at most MaxCells cells
MaxCells == 4
\* a palette passed directly to map_to_palette has at most MaxPalette entries
MaxPalette == 2
\* the sides of a decoded image range over 1..MaxDim
MaxDim == 2
\* the bricks field of a request ranges over -1..MaxBricks
MaxBricks == 2
\* cell_size ranges over 1..MaxCellSize
MaxCellSize == 2
\* bricks ranges over -1..MaxSampleBricks in direct calls of image_to_brick_matrix
MaxSampleBricks == 1

----------------------------------------------------------------------------
(* Colours used as inputs. *)

RED     == <<255, 0, 0>>
BLUE    == <<0, 0, 255>>
WHITE   == <<255, 255, 255>>
REDDISH == <<250, 10, 10>>
BLUISH  == <<10, 10, 250>>
BLACK   == <<0, 0, 0>>

PaletteColours == {RED, BLUE, WHITE}
CellColours    == {RED, REDDISH, BLUISH}
Colours        == PaletteColours \cup CellColours \cup {BLACK}

Min(a, b) == IF a <= b THEN a ELSE b

RECURSIVE SeqSum(_)
SeqSum(s) == IF s = <<>> THEN 0 ELSE Head(s) + SeqSum(Tail(s))

\* all sequences over S of length 0..n
SeqsUpTo(S, n) == UNION {[1..k -> S] : k \in 0..n}

\* all h x w grids over S
GridsOf(S, h, w) == [1..h -> [1..w -> S]]

----------------------------------------------------------------------------
(* skimage.color.rgb2lab in fixed point: sRGB -> linear RGB -> CIE XYZ     *)
(* (D65) -> CIE LAB.  Linear channels and the XYZ ratios are scaled by     *)
(* 10^4, f(t) by 10^3, and L, a, b by 100.                                 *)

\* round(10^4 * linear(c / 255)) for c = 0..255, where linear(v) is
\* ((v + 0.055) / 1.055)^2.4 above 0.04045 and v / 12.92 below
SRGBLinear ==
  <<
       0, 3, 6, 9, 12, 15, 18, 21, 24, 27, 30, 33, 37, 40, 44, 48,
       52, 56, 60, 65, 70, 75, 80, 86, 91, 97, 103, 110, 116, 123, 130, 137,
       144, 152, 160, 168, 176, 185, 194, 203, 212, 222, 232, 242, 252, 262, 273, 284,
       296, 307, 319, 331, 343, 356, 369, 382, 395, 409, 423, 437, 452, 467, 482, 497,
       513, 529, 545, 561, 578, 595, 612, 630, 648, 666, 685, 704, 723, 742, 762, 782,
       802, 823, 844, 865, 887, 908, 931, 953, 976, 999, 1022, 1046, 1070, 1095, 1119, 1144,
       1170, 1195, 1221, 1248, 1274, 1301, 1329, 1356, 1384, 1413, 1441, 1470, 1500, 1529, 1559, 1590,
       1620, 1651, 1683, 1714, 1746, 1779, 1812, 1845, 1878, 1912, 1946, 1981, 2016, 2051, 2086, 2122,
       2159, 2195, 2232, 2270, 2307, 2346, 2384, 2423, 2462, 2502, 2542, 2582, 2623, 2664, 2705, 2747,
       2789, 2831, 2874, 2918, 2961, 3005, 3050, 3095, 3140, 3185, 3231, 3278, 3325, 3372, 3419, 3467,
       3515, 3564, 3613, 3663, 3712, 3763, 3813, 3864, 3916, 3968, 4020, 4072, 4125, 4179, 4233, 4287,
       4342, 4397, 4452, 4508, 4564, 4621, 4678, 4735, 4793, 4851, 4910, 4969, 5029, 5089, 5149, 5210,
       5271, 5333, 5395, 5457, 5520, 5583, 5647, 5711, 5776, 5841, 5906, 5972, 6038, 6105, 6172, 6240,
       6308, 6376, 6445, 6514, 6584, 6654, 6724, 6795, 6867, 6939, 7011, 7084, 7157, 7231, 7305, 7379,
       7454, 7529, 7605, 7682, 7758, 7835, 7913, 7991, 8070, 8148, 8228, 8308, 8388, 8469, 8550, 8632,
       8714, 8796, 8879, 8963, 9047, 9131, 9216, 9301, 9387, 9473, 9560, 9647, 9734, 9823, 9911, 10000 >>

\* largest r with r^3 <= n
ICbrt(n) == CHOOSE r \in 0..1100 : r * r * r <= n /\ (r + 1) * (r + 1) * (r + 1) > n

\* cube root above 0.008856, 7.787 t + 16/116 below
LabF(t) == IF t > 88 THEN ICbrt(t * 100000) ELSE (7787 * t) \div 10000 + 138

rgb2lab(c) ==
    LET r  == SRGBLinear[c[1] + 1]
        g  == SRGBLinear[c[2] + 1]
        b  == SRGBLinear[c[3] + 1]
        X  == 4125 * r + 3576 * g + 1804 * b
        Y  == 2127 * r + 7152 * g + 722 * b
        Z  == 193 * r + 1192 * g + 9502 * b
        fx == LabF(X \div 9505)
        fy == LabF(Y \div 10000)
        fz == LabF(Z \div 10888)
    IN  <<(116 * fy - 16000) \div 10, 50 * (fx - fy), 20 * (fy - fz)>>

\* the conversion of every colour of the model, computed once
LabTable == [c \in Colours |-> rgb2lab(c)]

\* astype(np.uint8)
ToUint8(v) == v % 256

Uint8Colour(c) == <<ToUint8(c[1]), ToUint8(c[2]), ToUint8(c[3])>>

\* palette RGB list -> LAB, order kept
rgb_palette_to_lab(palette) == [p \in 1..Len(palette) |-> LabTable[Uint8Colour(palette[p])]]

----------------------------------------------------------------------------
(* palette.py: the palette is read from the CSV file on every call.        *)

\* a "#RRGGBB" string as its six hex digits -> (r, g, b)
HexToRgb(h) == <<h[1] * 16 + h[2], h[3] * 16 + h[4], h[5] * 16 + h[6]>>

load_palette(file) ==
    [i \in 1..Len(file) |->
        [value |-> file[i].value, children |-> file[i].children,
         rgb_tuple |-> HexToRgb(file[i].rgb)]]

get_rgb_palette(file) ==
    LET df == load_palette(file) IN [i \in 1..Len(df) |-> df[i].rgb_tuple]

get_palette_metadata(file) ==
    LET df == load_palette(file)
    IN  [i \in 1..Len(df) |->
            [code |-> df[i].value, name |-> df[i].children, rgb |-> df[i].rgb_tuple]]

\* rows of colorspalette.csv (value, children, rgb)
RowRed   == [value |-> 21, children |-> "Bright Red",  rgb |-> <<15, 15, 0, 0, 0, 0>>]
RowBlue  == [value |-> 23, children |-> "Bright Blue", rgb |-> <<0, 0, 0, 0, 15, 15>>]
RowWhite == [value |-> 1,  children |-> "White",       rgb |-> <<15, 15, 15, 15, 15, 15>>]
RowRed2  == [value |-> 5,  children |-> "Red",         rgb |-> <<15, 15, 0, 0, 0, 0>>]

\* the contents the palette source takes
PaletteFiles ==
    { <<>>, <<RowRed>>, <<RowRed, RowBlue>>, <<RowBlue, RowRed>>,
      <<RowRed, RowRed2, RowBlue>> }

----------------------------------------------------------------------------
(* utils.py: map_to_palette.                                               *)

\* (h, w) of a grid
Shape(m) == <<Len(m), IF Len(m) = 0 THEN 0 ELSE Len(m[1])>>

\* reshape((-1, 3)): the cells in row-major order
Flatten(m) ==
    LET h == Shape(m)[1]
        w == Shape(m)[2]
    IN  [n \in 1..(h * w) |-> m[((n - 1) \div w) + 1][((n - 1) % w) + 1]]

\* reshape((h, w, 3))
Reshape(flat, h, w) == [y \in 1..h |-> [x \in 1..w |-> flat[(y - 1) * w + x]]]

\* square of the Euclidean norm of p - q; the square root np.linalg.norm
\* takes is monotone, so the order of the distances and their ties are kept
LabDistance(p, q) ==
    (p[1] - q[1]) * (p[1] - q[1]) + (p[2] - q[2]) * (p[2] - q[2])
        + (p[3] - q[3]) * (p[3] - q[3])

\* a later entry replaces the best one also when it is merely equal
RECURSIVE ArgminLastFrom(_, _, _)
ArgminLastFrom(row, i, best) ==
    IF i > Len(row) THEN best - 1
    ELSE ArgminLastFrom(row, i + 1, IF row[i] <= row[best] THEN i ELSE best)

\* np.argmin scans left to right and keeps the first minimum
RECURSIVE ArgminFrom(_, _, _)
ArgminFrom(row, i, best) ==
    IF i > Len(row) THEN best - 1
    ELSE ArgminFrom(row, i + 1, IF row[i] < row[best] THEN i ELSE best)

\* 0-based index of the minimum of a non-empty row
argmin(row) == ArgminFrom(row, 2, 1)

\* the (N, P) matrix of distances between the cells and the palette entries
Distances(lab_img, lab_palette) ==
    [n \in 1..Len(lab_img) |->
        [p \in 1..Len(lab_palette) |-> LabDistance(lab_img[n], lab_palette[p])]]

\* np.unique(idx, return_counts=True), then one record per entry of the
\* palette metadata, which map_to_palette reads from the palette source
CountsList(index, palette, palette_metadata) ==
    LET unique == {index[n] : n \in 1..Len(index)}
    IN  [i \in 1..Len(palette_metadata) |->
            [index |-> i - 1,
             code  |-> palette_metadata[i].code,
             name  |-> palette_metadata[i].name,
             rgb   |-> palette_metadata[i].rgb,
             count |-> IF (i - 1) \in unique
                       THEN Cardinality({n \in 1..Len(index) : index[n] = i - 1})
                       ELSE 0]]

\* the palette is held as int8, so a channel of 128 or more wraps
PaletteTakeSigned(palette, index) ==
    [n \in 1..Len(index) |->
        <<palette[index[n] + 1][1] % 128, palette[index[n] + 1][2] % 128,
          palette[index[n] + 1][3] % 128>>]

\* np.array(palette_rgb, dtype=np.uint8)[idx]
PaletteTake(palette, index) ==
    [n \in 1..Len(index) |-> Uint8Colour(palette[index[n] + 1])]

\* the result of a call that raised
Raise(e) == [raised |-> e, idx |-> <<>>, mapped |-> <<>>, counts |-> <<>>]

map_to_palette(matrix, palette, file) ==
    LET h == Shape(matrix)[1]
        w == Shape(matrix)[2]
        img_flat == Flatten(matrix)
        lab_img == [n \in 1..Len(img_flat) |-> LabTable[img_flat[n]]]
        lab_palette == rgb_palette_to_lab(palette)
        distances == Distances(lab_img, lab_palette)
        index == [n \in 1..Len(img_flat) |-> argmin(distances[n])]
        mapped_flat == PaletteTake(palette, index)
    IN  IF Len(palette) = 0
        THEN Raise("ValueError: attempt to get argmin of an empty sequence")
        ELSE [raised |-> "",
              idx    |-> index,
              mapped |-> Reshape(mapped_flat, h, w),
              counts |-> CountsList(index, palette, get_palette_metadata(file))]

----------------------------------------------------------------------------
(* utils.py: expand_mosaic.  A PIL image is its size (width, height) and   *)
(* its rows of pixels.                                                     *)

NoImage == [size |-> <<0, 0>>, px |-> <<>>]

\* the whole sequence k times over
RECURSIVE np_tile(_, _)
np_tile(s, k) == IF k <= 0 THEN <<>> ELSE s \o np_tile(s, k - 1)

\* np.repeat along one axis: each element k times in a row
RECURSIVE np_repeat(_, _)
np_repeat(s, k) ==
    IF s = <<>> THEN <<>> ELSE [i \in 1..k |-> Head(s)] \o np_repeat(Tail(s), k)

\* Image.fromarray(arr.astype(np.uint8)): the size is (columns, rows)
np_to_pil(arr) ==
    [size |-> <<Shape(arr)[2], Shape(arr)[1]>>,
     px   |-> [y \in 1..Len(arr) |-> [x \in 1..Len(arr[y]) |-> Uint8Colour(arr[y][x])]]]

expand_mosaic(mapped_matrix, k) ==
    LET rows == np_repeat(mapped_matrix, k)
        big  == [y \in 1..Len(rows) |-> np_repeat(rows[y], k)]
    IN  np_to_pil(big)

----------------------------------------------------------------------------
(* Direct calls of map_to_palette(matrix_rgb, palette_rgb): every raw grid *)
(* of at most MaxCells cells, every palette of at most MaxPalette entries, *)
(* every content of the palette source.                                    *)

RawGrids ==
    UNION {GridsOf(CellColours, h, w) :
             <<h, w>> \in {s \in (1..MaxCells) \X (1..MaxCells) : s[1] * s[2] <= MaxCells}}

InitMap ==
    /\ colorspalette \in PaletteFiles
    /\ endpoint = ""
    /\ pc = "map_to_palette"
    /\ matrix_rgb \in RawGrids
    /\ palette_rgb \in SeqsUpTo(PaletteColours, MaxPalette)
    /\ img = <<>> /\ form = <<>> /\ bricks = 0 /\ cell_size = 0
    /\ crop_box = <<>> /\ region = <<>>
    /\ idx = <<>> /\ mapped = <<>> /\ counts = <<>>
    /\ vis_img = NoImage /\ matrix_indices = <<>> /\ metadata = <<>>
    /\ brick_list = <<>>
    /\ raised = ""

CallMapToPalette ==
    /\ pc = "map_to_palette"
    /\ LET r == map_to_palette(matrix_rgb, palette_rgb, colorspalette)
       IN  /\ idx' = r.idx
           /\ mapped' = r.mapped
           /\ counts' = r.counts
           /\ raised' = r.raised
           /\ pc' = IF r.raised = "" THEN "returned" ELSE "raised"
    /\ UNCHANGED <<colorspalette, endpoint, img, form, bricks, cell_size, crop_box, region,
                   matrix_rgb, palette_rgb, vis_img, matrix_indices, metadata, brick_list>>

NextMap == CallMapToPalette

SpecMap == InitMap /\ [][NextMap]_vars

----------------------------------------------------------------------------
(* Properties of map_to_palette, checked under SpecMap.                    *)

\* number of cells of the raw grid
CellCount == Shape(matrix_rgb)[1] * Shape(matrix_rgb)[2]

\* number of cells mapped to 0-based palette index i
CellsAt(i) == Cardinality({n \in 1..Len(idx) : idx[n] = i})

\* distance of flattened cell n to entry p of the palette passed in
CellDistance(n, p) == LabDistance(LabTable[Flatten(matrix_rgb)[n]], LabTable[palette_rgb[p]])

\* C1: whenever map_to_palette returns, the counts of the returned usage
\* records add up to h * w, whatever palette was passed.
C1_CountConservation ==
    pc = "returned" => SeqSum([i \in 1..Len(counts) |-> counts[i].count]) = CellCount

\* C2: for a non-empty palette map_to_palette returns a grid of the shape of
\* the raw grid in which every cell equals the RGB triple of some entry of
\* the palette passed in.
C2_ExactPaletteMembership ==
    (pc # "map_to_palette" /\ Len(palette_rgb) > 0) =>
        /\ pc = "returned"
        /\ Shape(mapped) = Shape(matrix_rgb)
        /\ \A y \in 1..Len(mapped) : \A x \in 1..Len(mapped[y]) :
              \E p \in 1..Len(palette_rgb) : mapped[y][x] = palette_rgb[p]

\* C2 witness: a returned 2 x 2 grid with a cell whose colour was replaced
C2_Witness ==
    /\ pc = "returned"
    /\ Shape(mapped) = <<2, 2>>
    /\ matrix_rgb[1][2] = REDDISH
    /\ mapped[1][2] = RED
    /\ mapped[2][1] = BLUE

\* C3: the entry selected for a cell is at least as near as every entry of
\* the palette, every entry before it is strictly farther, and a cell whose
\* raw RGB equals an entry's RGB is mapped to the first entry with that RGB.
C3_NearestLowestIndex ==
    pc = "returned" =>
        \A n \in 1..Len(idx) :
            /\ idx[n] \in 0..(Len(palette_rgb) - 1)
            /\ \A p \in 1..Len(palette_rgb) : CellDistance(n, idx[n] + 1) <= CellDistance(n, p)
            /\ \A p \in 1..idx[n] : CellDistance(n, p) > CellDistance(n, idx[n] + 1)
            /\ \A p \in 1..Len(palette_rgb) :
                  palette_rgb[p] = Flatten(matrix_rgb)[n] =>
                      /\ idx[n] + 1 <= p
                      /\ palette_rgb[idx[n] + 1] = Flatten(matrix_rgb)[n]

\* C3 witness: a cell equal to a colour the palette holds twice, mapped to
\* the first of the two equidistant entries
C3_Witness ==
    /\ pc = "returned"
    /\ palette_rgb = <<RED, RED>>
    /\ Flatten(matrix_rgb)[1] = RED
    /\ idx[1] = 0
    /\ CellDistance(1, 1) = CellDistance(1, 2)

\* C4: the usage records are one per entry of the palette passed in, in its
\* order, each with that entry's rgb and the number of cells mapped to it.
C4_RecordsFollowSuppliedPalette ==
    pc = "returned" =>
        /\ Len(counts) = Len(palette_rgb)
        /\ \A i \in 1..Len(counts) :
              /\ i <= Len(palette_rgb) => counts[i].rgb = palette_rgb[i]
              /\ counts[i].count = CellsAt(i - 1)

----------------------------------------------------------------------------
(* Direct calls of expand_mosaic(mapped, cell_size): every quantized grid  *)
(* of at most MaxCells cells and every cell_size in 1..MaxCellSize.        *)

QuantizedGrids ==
    UNION {GridsOf(PaletteColours, h, w) :
             <<h, w>> \in {s \in (1..MaxCells) \X (1..MaxCells) : s[1] * s[2] <= MaxCells}}

InitExpand ==
    /\ colorspalette = <<>>
    /\ endpoint = ""
    /\ pc = "expand_mosaic"
    /\ mapped \in QuantizedGrids
    /\ cell_size \in 1..MaxCellSize
    /\ img = <<>> /\ form = <<>> /\ bricks = 0
    /\ crop_box = <<>> /\ region = <<>>
    /\ matrix_rgb = <<>> /\ palette_rgb = <<>> /\ idx = <<>> /\ counts = <<>>
    /\ vis_img = NoImage /\ matrix_indices = <<>> /\ metadata = <<>>
    /\ brick_list = <<>>
    /\ raised = ""

CallExpandMosaic ==
    /\ pc = "expand_mosaic"
    /\ vis_img' = expand_mosaic(mapped, cell_size)
    /\ pc' = "returned"
    /\ UNCHANGED <<colorspalette, endpoint, img, form, bricks, cell_size, crop_box, region,
                   matrix_rgb, palette_rgb, idx, mapped, counts, matrix_indices, metadata,
                   brick_list, raised>>

NextExpand == CallExpandMosaic

SpecExpand == InitExpand /\ [][NextExpand]_vars

\* C7: expand_mosaic returns an image of (w * k) x (h * k) pixels whose
\* pixel (x, y) is grid cell (y div k, x div k).
C7_BlockExpansion ==
    pc = "returned" =>
        LET h == Shape(mapped)[1]
            w == Shape(mapped)[2]
            k == cell_size
        IN  /\ vis_img.size = <<w * k, h * k>>
            /\ Len(vis_img.px) = h * k
            /\ \A y \in 0..(h * k - 1) :
                  /\ Len(vis_img.px[y + 1]) = w * k
                  /\ \A x \in 0..(w * k - 1) :
                        vis_img.px[y + 1][x + 1] = mapped[(y \div k) + 1][(x \div k) + 1]

\* C7 witness: a 1 x 2 grid of two colours expanded with cell_size 2
C7_Witness ==
    /\ pc = "returned"
    /\ cell_size = 2
    /\ mapped = <<<<RED, BLUE>>>>
    /\ vis_img.size = <<4, 2>>
    /\ vis_img.px[2][2] = RED
    /\ vis_img.px[2][3] = BLUE

----------------------------------------------------------------------------
(* utils.py: image_to_brick_matrix.  The decoded image is its size         *)
(* <<width, height>>; its pixel content is not part of the model, so a     *)
(* sampled pixel of the image takes any colour of SampleColours.  A view   *)
(* is the rectangle <<left, upper, right, lower>> of source coordinates a  *)
(* PIL image derived from the source shows.  Image.crop does not clip the  *)
(* box to the image: the pixels of a view outside the source are black.    *)

SampleColours == {REDDISH, BLUISH}

ViewWidth(view)  == view[3] - view[1]
ViewHeight(view) == view[4] - view[2]

\* Image.crop(box), box in the coordinates of the view
PilCrop(view, box) ==
    IF box[3] < box[1]
    THEN [raised |-> "ValueError: Coordinate 'right' is less than 'left'", view |-> view]
    ELSE IF box[4] < box[2]
    THEN [raised |-> "ValueError: Coordinate 'lower' is less than 'upper'", view |-> view]
    ELSE [raised |-> "",
          view |-> <<view[1] + box[1], view[2] + box[2], view[1] + box[3], view[2] + box[4]>>]

\* the offsets are computed from the wrong sides
CenterSquareSwapped(w, h) ==
    LET side  == Min(w, h)
        left  == (h - side) \div 2
        upper == (w - side) \div 2
    IN  <<left, upper, left + side, upper + side>>

\* the box of the center crop of a w x h image
CenterSquare(w, h) ==
    LET side  == Min(w, h)
        left  == (w - side) \div 2
        upper == (h - side) \div 2
    IN  <<left, upper, left + side, upper + side>>

\* ensure square by center-cropping if needed
SquareView(view) ==
    LET w == ViewWidth(view)
        h == ViewHeight(view)
    IN  IF w # h THEN PilCrop(view, CenterSquare(w, h)).view ELSE view

\* is the pixel (x, y) of the source coordinates a pixel of the image
PixelInImage(image, x, y) == 0 <= x /\ x < image[1] /\ 0 <= y /\ y < image[2]

\* the source pixels a view shows
ViewPixels(view) == (view[1]..(view[3] - 1)) \X (view[2]..(view[4] - 1))

\* Image.resize((n, n), LANCZOS) then pil_to_np(...).astype(np.uint8): the
\* set of results over the contents the image can have.  A resize to the
\* size the view already has is a copy, also of an empty view; otherwise a
\* side below 1 raises, and every cell is a weighted mean of the pixels of
\* the view, black where the view has no pixel of the image.
PilResize(image, view, n) ==
    LET inside  == {p \in ViewPixels(view) : PixelInImage(image, p[1], p[2])}
        outside == ViewPixels(view) \ inside
        means   == (IF inside # {} THEN SampleColours ELSE {})
                      \cup (IF outside # {} \/ inside = {} THEN {BLACK} ELSE {})
    IN  IF <<ViewWidth(view), ViewHeight(view)>> = <<n, n>>
        THEN {[raised |-> "", grid |-> g] :
                g \in {c \in GridsOf(SampleColours \cup {BLACK}, n, n) :
                         \A y \in 1..n : \A x \in 1..n :
                            IF PixelInImage(image, view[1] + x - 1, view[2] + y - 1)
                            THEN c[y][x] \in SampleColours
                            ELSE c[y][x] = BLACK}}
        ELSE IF n < 1
        THEN {[raised |-> "ValueError: height and width must be > 0", grid |-> <<>>]}
        ELSE {[raised |-> "", grid |-> g] : g \in GridsOf(means, n, n)}

\* the set of outcomes of image_to_brick_matrix(img, bricks, crop_box)
image_to_brick_matrix(image, n, box) ==
    LET full    == <<0, 0, image[1], image[2]>>
        cropped == IF box # <<>> THEN PilCrop(full, box) ELSE [raised |-> "", view |-> full]
        square  == SquareView(cropped.view)
    IN  IF cropped.raised # ""
        THEN {[raised |-> cropped.raised, region |-> <<>>, grid |-> <<>>]}
        ELSE {[raised |-> o.raised, region |-> square, grid |-> o.grid] :
                o \in PilResize(image, square, n)}

----------------------------------------------------------------------------
(* Direct calls of image_to_brick_matrix(img, bricks, crop_box): every     *)
(* image of sides 1..MaxDim, every crop box with coordinates in            *)
(* -1..MaxDim + 1 or none, bricks in -1..MaxSampleBricks.                  *)

ImageSizes == (1..MaxDim) \X (1..MaxDim)

CropCoords == (0 - 1)..(MaxDim + 1)

CropBoxes == CropCoords \X CropCoords \X CropCoords \X CropCoords

InitSample ==
    /\ colorspalette = <<>>
    /\ endpoint = ""
    /\ pc = "image_to_brick_matrix"
    /\ img \in ImageSizes
    /\ bricks \in (0 - 1)..MaxSampleBricks
    /\ crop_box \in {<<>>} \cup CropBoxes
    /\ form = <<>> /\ cell_size = 0 /\ region = <<>>
    /\ matrix_rgb = <<>> /\ palette_rgb = <<>> /\ idx = <<>> /\ mapped = <<>>
    /\ counts = <<>> /\ vis_img = NoImage /\ matrix_indices = <<>> /\ metadata = <<>>
    /\ brick_list = <<>>
    /\ raised = ""

CallImageToBrickMatrix ==
    /\ pc = "image_to_brick_matrix"
    /\ \E o \in image_to_brick_matrix(img, bricks, crop_box) :
          /\ matrix_rgb' = o.grid
          /\ region' = o.region
          /\ raised' = o.raised
          /\ pc' = IF o.raised = "" THEN "returned" ELSE "raised"
    /\ UNCHANGED <<colorspalette, endpoint, img, form, bricks, cell_size, crop_box,
                   palette_rgb, idx, mapped, counts, vis_img, matrix_indices, metadata,
                   brick_list>>

NextSample == CallImageToBrickMatrix

SpecSample == InitSample /\ [][NextSample]_vars

\* the crop box is valid for the image: 0 <= left < right <= W and 0 <= top < bottom <= H
ValidCropBox(image, box) ==
    /\ 0 <= box[1] /\ box[1] < box[3] /\ box[3] <= image[1]
    /\ 0 <= box[2] /\ box[2] < box[4] /\ box[4] <= image[2]

\* the view the square-normalization starts from: the crop box, or the whole image
CroppedView == IF crop_box # <<>> THEN crop_box ELSE <<0, 0, img[1], img[2]>>

\* C5: a call with a crop box that is out of bounds or not normalized ends
\* in an error and produces no grid.
C5_InvalidCropRejected ==
    (pc # "image_to_brick_matrix" /\ crop_box # <<>> /\ ~ValidCropBox(img, crop_box)) =>
        (pc = "raised" /\ matrix_rgb = <<>>)

\* C8: for a (cropped) image of W x H pixels, W >= 1 and H >= 1, the region
\* handed to the resampler is the square of side min(W, H) at offset
\* (floor((W - side) / 2), floor((H - side) / 2)); it lies inside the image
\* and is the whole image when W = H.
C8_SquareNormalization ==
    LET W    == ViewWidth(CroppedView)
        H    == ViewHeight(CroppedView)
        side == IF W <= H THEN W ELSE H
        left == CroppedView[1] + ((W - side) \div 2)
        top  == CroppedView[2] + ((H - side) \div 2)
    IN  (pc # "image_to_brick_matrix" /\ W >= 1 /\ H >= 1) =>
            /\ region = <<left, top, left + side, top + side>>
            /\ CroppedView[1] <= region[1] /\ region[3] <= CroppedView[3]
            /\ CroppedView[2] <= region[2] /\ region[4] <= CroppedView[4]
            /\ (W = H => region = CroppedView)

\* C8 witness: a 3 x 1 crop, whose center square starts one pixel in
C8_Witness ==
    /\ pc = "returned"
    /\ crop_box = <<0, 1, 3, 2>>
    /\ region = <<1, 1, 2, 2>>
    /\ Shape(matrix_rgb) = <<1, 1>>

----------------------------------------------------------------------------
(* main.py: the /convert and /convert/bricks.csv handlers.  A handler runs *)
(* to its end without yielding once the upload is read, but each of        *)
(* get_rgb_palette and get_palette_metadata reads colorspalette.csv anew,  *)
(* so the steps of a handler are cut at its reads of the file, between     *)
(* which the file can be replaced.                                         *)

\* the form fields crop_left, crop_top, crop_right, crop_bottom of a request
RequestForms ==
    { << <<>>, <<>>, <<>>, <<>> >>,
      << <<0>>, <<>>, <<1>>, <<1>> >>,
      << <<0>>, <<0>>, <<1>>, <<1>> >>,
      << <<0>>, <<0>>, <<0>>, <<0>> >> }

Endpoints == {"/convert", "/convert/bricks.csv"}

\* crop_box is None unless the four fields are given
CropBoxOfForm(f) ==
    IF \A i \in 1..4 : f[i] # <<>>
    THEN <<f[1][1], f[2][1], f[3][1], f[4][1]>>
    ELSE <<>>

\* pil_to_bytes(img, "PNG"): the encoder refuses an image without pixels
pil_to_bytes(image) ==
    IF image.size[1] = 0 \/ image.size[2] = 0
    THEN "SystemError: tile cannot extend outside image"
    ELSE ""

\* {tuple(rgb): idx for idx, rgb in enumerate(palette_rgb)}, built entry by
\* entry: a later entry with the same RGB takes the key over
RECURSIVE PaletteMapFrom(_, _, _)
PaletteMapFrom(palette, i, m) ==
    IF i > Len(palette) THEN m
    ELSE PaletteMapFrom(palette, i + 1,
            [c \in (DOMAIN m) \cup {palette[i]} |-> IF c = palette[i] THEN i - 1 ELSE m[c]])

PaletteMap(palette) == PaletteMapFrom(palette, 1, [c \in {} |-> 0])

\* the brick list of /convert/bricks.csv: the non-zero counts, then the base plate
BrickList(usage, n) ==
    LET base_plate      == [code |-> 6061048, count |-> IF n = 64 THEN 4 ELSE 1]
        counts_non_zero == SelectSeq(usage, LAMBDA e : e.count > 0)
        rows            == [i \in 1..Len(counts_non_zero) |->
                               [code |-> counts_non_zero[i].code,
                                count |-> counts_non_zero[i].count]] \o <<base_plate>>
    IN  [i \in 1..Len(rows) |-> <<rows[i].code, rows[i].count>>]

Init ==
    /\ colorspalette \in PaletteFiles
    /\ endpoint \in Endpoints
    /\ pc = "start"
    /\ img \in ImageSizes
    /\ form \in RequestForms
    /\ bricks \in (0 - 1)..MaxBricks
    /\ cell_size \in 1..MaxCellSize
    /\ crop_box = <<>> /\ region = <<>>
    /\ matrix_rgb = <<>> /\ palette_rgb = <<>> /\ idx = <<>> /\ mapped = <<>>
    /\ counts = <<>> /\ vis_img = NoImage /\ matrix_indices = <<>> /\ metadata = <<>>
    /\ brick_list = <<>>
    /\ raised = ""

\* another process replaces colorspalette.csv while a request is served
ReplacePalette ==
    /\ pc \in {"start", "sampled", "loaded", "mapped", "recovered"}
    /\ colorspalette' \in PaletteFiles \ {colorspalette}
    /\ UNCHANGED <<endpoint, pc, img, form, bricks, cell_size, crop_box, region, matrix_rgb,
                   palette_rgb, idx, mapped, counts, vis_img, matrix_indices, metadata,
                   brick_list, raised>>

\* crop_box from the form, then matrix_rgb = image_to_brick_matrix(...)
Sample ==
    /\ pc = "start"
    /\ crop_box' = CropBoxOfForm(form)
    /\ \E o \in image_to_brick_matrix(img, bricks, crop_box') :
          /\ matrix_rgb' = o.grid
          /\ region' = o.region
          /\ raised' = o.raised
          /\ pc' = IF o.raised = "" THEN "sampled" ELSE "raised"
    /\ UNCHANGED <<colorspalette, endpoint, img, form, bricks, cell_size, palette_rgb, idx,
                   mapped, counts, vis_img, matrix_indices, metadata, brick_list>>

\* palette_rgb = get_rgb_palette()
LoadPalette ==
    /\ pc = "sampled"
    /\ palette_rgb' = get_rgb_palette(colorspalette)
    /\ pc' = "loaded"
    /\ UNCHANGED <<colorspalette, endpoint, img, form, bricks, cell_size, crop_box, region,
                   matrix_rgb, idx, mapped, counts, vis_img, matrix_indices, metadata,
                   brick_list, raised>>

\* mapped, counts = map_to_palette(matrix_rgb, palette_rgb)
Map ==
    /\ pc = "loaded"
    /\ LET r == map_to_palette(matrix_rgb, palette_rgb, colorspalette)
       IN  /\ idx' = r.idx
           /\ mapped' = r.mapped
           /\ counts' = r.counts
           /\ raised' = r.raised
           /\ pc' = IF r.raised = "" THEN "mapped" ELSE "raised"
    /\ UNCHANGED <<colorspalette, endpoint, img, form, bricks, cell_size, crop_box, region,
                   matrix_rgb, palette_rgb, vis_img, matrix_indices, metadata, brick_list>>

\* /convert: the preview, its PNG bytes, and the index matrix by reverse lookup
ExpandAndRecover ==
    /\ pc = "mapped"
    /\ endpoint = "/convert"
    /\ LET vis         == expand_mosaic(mapped, cell_size)
           png         == pil_to_bytes(vis)
           palette_map == PaletteMap(palette_rgb)
           missing     == \E y \in 1..Len(mapped) : \E x \in 1..Len(mapped[y]) :
                             mapped[y][x] \notin DOMAIN palette_map
       IN  /\ vis_img' = vis
           /\ IF png # ""
              THEN /\ raised' = png
                   /\ pc' = "raised"
                   /\ matrix_indices' = matrix_indices
              ELSE IF missing
              THEN /\ raised' = "KeyError"
                   /\ pc' = "raised"
                   /\ matrix_indices' = matrix_indices
              ELSE /\ raised' = raised
                   /\ pc' = "recovered"
                   /\ matrix_indices' =
                         [y \in 1..Len(mapped) |->
                             [x \in 1..Len(mapped[y]) |-> palette_map[mapped[y][x]]]]
    /\ UNCHANGED <<colorspalette, endpoint, img, form, bricks, cell_size, crop_box, region,
                   matrix_rgb, palette_rgb, idx, mapped, counts, metadata, brick_list>>

\* /convert: metadata = get_palette_metadata(), then the JSON response
ConvertReturn ==
    /\ pc = "recovered"
    /\ endpoint = "/convert"
    /\ metadata' = get_palette_metadata(colorspalette)
    /\ pc' = "done"
    /\ UNCHANGED <<colorspalette, endpoint, img, form, bricks, cell_size, crop_box, region,
                   matrix_rgb, palette_rgb, idx, mapped, counts, vis_img, matrix_indices,
                   brick_list, raised>>

\* /convert/bricks.csv: the CSV response
CsvReturn ==
    /\ pc = "mapped"
    /\ endpoint = "/convert/bricks.csv"
    /\ brick_list' = BrickList(counts, bricks)
    /\ pc' = "done"
    /\ UNCHANGED <<colorspalette, endpoint, img, form, bricks, cell_size, crop_box, region,
                   matrix_rgb, palette_rgb, idx, mapped, counts, vis_img, matrix_indices,
                   metadata, raised>>

Next ==
    \/ ReplacePalette
    \/ Sample
    \/ LoadPalette
    \/ Map
    \/ ExpandAndRecover
    \/ ConvertReturn
    \/ CsvReturn

Spec == Init /\ [][Next]_vars

----------------------------------------------------------------------------
(* Properties of the handlers, checked under Spec.                         *)

\* C6: a conversion run with bricks <= 0 or with an empty palette ends in
\* an error, and a conversion that returns has a complete bricks x bricks
\* grid together with its counts.
C6_AllOrNothing ==
    pc = "done" =>
        /\ bricks >= 1
        /\ Len(palette_rgb) > 0
        /\ Shape(mapped) = <<bricks, bricks>>
        /\ Len(idx) = bricks * bricks

\* C9: the palette of one /convert request is one snapshot: the RGB list
\* used for the mapping, the palette behind the usage records and the
\* metadata returned as 'palette' have the same contents.
C9_OnePaletteSnapshot ==
    (endpoint = "/convert" /\ pc = "done") =>
        /\ Len(counts) = Len(palette_rgb)
        /\ Len(metadata) = Len(palette_rgb)
        /\ \A i \in 1..Len(palette_rgb) :
              /\ counts[i].rgb = palette_rgb[i]
              /\ metadata[i].rgb = palette_rgb[i]
              /\ metadata[i].code = counts[i].code

\* C10: in /convert the reverse lookup finds every cell's colour, the index
\* it finds is the index map_to_palette selected for the cell, and the
\* number of cells of 'matrix' equal to i is counts[i].count.
C10_IndexRecoveryAgrees ==
    /\ raised # "KeyError"
    /\ (endpoint = "/convert" /\ pc \in {"recovered", "done"}) =>
          /\ Flatten(matrix_indices) = idx
          /\ \A i \in 1..Len(counts) :
                Cardinality({n \in 1..Len(Flatten(matrix_indices)) :
                                Flatten(matrix_indices)[n] = i - 1}) = counts[i].count

====
